---- MODULE Spec2Model ----
(***************************************************************************)
(* Model of r.pops.potential (src/r.pops.potential.py).                    *)
(*                                                                         *)
(* The module has three parts:                                             *)
(*   - distance_matrix and write_filter, the two pure functions;           *)
(*   - main and cleanup, the pipeline of one process run, with the calls   *)
(*     to the GRASS engine (r.mapcalc, r.info, g.region, r.mfilter,        *)
(*     g.remove) that may each fail;                                       *)
(*   - the properties checked.                                             *)
(*                                                                         *)
(* Numbers.  Lengths (max_distance, natural_distance, ewres, nsres) are    *)
(* non-negative integers of a common unit, so that every ratio of lengths  *)
(* within the bounds occurs.  A weight is an exact fraction [num, den].    *)
(* The code's dist = sqrt(k) * resolution is irrational in general; the    *)
(* model keeps 4 * dist^2 = k * (ewres + nsres)^2, an integer, and         *)
(* compares squares, which for non-negative reals is the same comparison.  *)
(* Rounding of IEEE doubles is not modelled.                               *)
(***************************************************************************)
EXTENDS Integers, Sequences, FiniteSets, TLC

VARIABLES
    pc,                \* position of the process: the stage of main about to run
    natural_distance,  \* options["natural_distance"]
    ewres, nsres,      \* gs.region()["ewres"], ["nsres"]
    radicand,          \* sign of infected*weather*reproductive_rate*52 - 1 where it is largest
    nprocs_ok,         \* whether int(options["nprocs"]) succeeds
    max_distance,      \* main's local max_distance
    matrix,            \* main's local matrix
    TMPFILE,           \* module global TMPFILE
    TMP,               \* module global TMP
    file_exists,       \* whether the file at path is on disk
    file_text,         \* what has been written to it
    grids,             \* the named grids that exist in the engine's mapset
    log,               \* the stages of main that have been started, in order
    error              \* the exception that ended main, "none" while there is none

vars == <<pc, natural_distance, ewres, nsres, radicand, nprocs_ok, max_distance,
          matrix, TMPFILE, TMP, file_exists, file_text, grids, log, error>>

(***************************************************************************)
(* Bounds of the model.                                                    *)
(***************************************************************************)
MaxRadius == 10
MaxRes == 4
MaxND == 2
MaxN == 3

(***************************************************************************)
(* Values.                                                                 *)
(***************************************************************************)
None == [kind |-> "None"]
NaN == [kind |-> "nan"]
Unset == [kind |-> "unset"]
Float(n) == [kind |-> "float", val |-> n]

\* A weight: the fraction num / den, den > 0.
Frac(n, d) == [num |-> n, den |-> d]
Zero == Frac(0, 1)
FracEq(a, b) == a.num * b.den = b.num * a.den

Min(a, b) == IF a <= b THEN a ELSE b
Max(a, b) == IF a >= b THEN a ELSE b
Abs(a) == IF a >= 0 THEN a ELSE -a

\* math.ceil(a / b) for a >= 0, b > 0
ceil(a, b) == (a + b - 1) \div b

(***************************************************************************)
(* distance_matrix                                                         *)
(***************************************************************************)
\* size = ceil(max_distance / min(region["ewres"], region["nsres"]))
\* (variants: the coarser resolution instead of the finer; floor + 1 for ceil)
size_coarse(max_d, ew, ns) == ceil(max_d, Max(ew, ns))
size_plus(max_d, ew, ns) == (max_d \div Min(ew, ns)) + 1
size(max_d, ew, ns) == ceil(max_d, Min(ew, ns))

\* resolution = (region["ewres"] + region["nsres"]) / 2, kept doubled
resolution2(ew, ns) == ew + ns

\* if i != center and j != center
\* (variant: or for and, which excludes the centre cell only)
eligible_or(i, j, center) == i # center \/ j # center
eligible(i, j, center) == i # center /\ j # center

\* dist = sqrt((i - center)^2 + (j - center)^2) * resolution, kept as 4 * dist^2
\* (variant: rows scaled by nsres and columns by ewres instead of their mean)
dist2x4_aniso(i, j, center, ew, ns) ==
    4 * ((i - center) * (i - center) * ns * ns + (j - center) * (j - center) * ew * ew)
dist2x4(i, j, center, ew, ns) ==
    ((i - center) * (i - center) + (j - center) * (j - center))
        * resolution2(ew, ns) * resolution2(ew, ns)

\* if dist <= max_distance
\* (variant: < for <=)
within_strict(d2x4, max_d) == d2x4 < 4 * max_d * max_d
within(d2x4, max_d) == d2x4 <= 4 * max_d * max_d

\* 1 / (dist * dist + natural_distance * natural_distance)
weight(d2x4, nd) == Frac(4, d2x4 + 4 * nd * nd)

distance_matrix(max_d, nd, ew, ns) ==
    LET sz == size(max_d, ew, ns)
        matrix_size == 2 * sz + 1
        center == sz
    IN  [i \in 0..(matrix_size - 1) |->
            [j \in 0..(matrix_size - 1) |->
                IF eligible(i, j, center)
                       /\ within(dist2x4(i, j, center, ew, ns), max_d)
                THEN weight(dist2x4(i, j, center, ew, ns), nd)
                ELSE Zero]]

\* matrix.shape[0]
shape0(m) == Cardinality(DOMAIN m)

(***************************************************************************)
(* write_filter                                                            *)
(*                                                                         *)
(* Text is a sequence of tokens (strings); "\n" is the newline token and   *)
(* " " the space token.  str(x) of a weight is the token "num/den", one    *)
(* token per distinct fraction; its decimal digits are not modelled.       *)
(***************************************************************************)
NL == "\n"
SP == " "

\* str(matrix[i, j])
str(w) == ToString(w.num) \o "/" \o ToString(w.den)

\* the inner loop: line += str(matrix[i, j]); line += " "
\* (variant: matrix[j, i])
RECURSIVE row_line_transposed(_, _, _)
row_line_transposed(m, i, j) ==
    IF j >= shape0(m) THEN <<>>
    ELSE <<str(m[j][i]), SP>> \o row_line_transposed(m, i, j + 1)
RECURSIVE row_line(_, _, _)
row_line(m, i, j) ==
    IF j >= shape0(m) THEN <<>>
    ELSE <<str(m[i][j]), SP>> \o row_line(m, i, j + 1)

\* "\n".join(filter_text)
RECURSIVE join(_)
join(lines) ==
    IF Len(lines) = 0 THEN <<>>
    ELSE IF Len(lines) = 1 THEN lines[1]
    ELSE lines[1] \o <<NL>> \o join(Tail(lines))

filter_lines(m) ==
    << <<"TITLE", SP, "infestation", SP, "potential">>,
       <<"MATRIX", SP, ToString(shape0(m))>> >>
    \o [r \in 1..shape0(m) |-> row_line(m, r - 1, 0)]
    \o << <<"DIVISOR", SP, "1">>, <<"TYPE", SP, "P">> >>

write_filter(m) == join(filter_lines(m))

\* Python's text.split("\n"), by which the properties read a text back
RECURSIVE split(_, _)
split(text, cur) ==
    IF Len(text) = 0 THEN <<cur>>
    ELSE IF Head(text) = NL THEN <<cur>> \o split(Tail(text), <<>>)
    ELSE split(Tail(text), Append(cur, Head(text)))

(***************************************************************************)
(* main and cleanup: one process run.                                      *)
(***************************************************************************)
infestation_range == "infestation_range"
infestation_potential == "infestation_potential"
rmfilter_in == "rmfilter_in"
rmfilter_out == "rmfilter_out"

Range(s) == {s[k] : k \in DOMAIN s}

\* an exception leaves main: the interpreter exits and runs the atexit handlers
Raise(e) == pc' = "exit" /\ error' = e

Init ==
    /\ pc = "range"
    /\ natural_distance \in 1..MaxND
    /\ ewres \in 1..MaxRes
    /\ nsres \in 1..MaxRes
    /\ radicand \in {"negative", "nonnegative"}
    /\ nprocs_ok \in BOOLEAN
    /\ max_distance = Unset
    /\ matrix = <<>>
    /\ TMPFILE = "None"
    /\ TMP = <<>>
    /\ file_exists = FALSE
    /\ file_text = <<>>
    /\ grids = {}
    /\ log = <<>>
    /\ error = "none"

\* gs.mapcalc(f"{infestation_range} = {natural_distance} * sqrt(... * 52 - 1)")
range_mapcalc ==
    /\ pc = "range"
    /\ log' = Append(log, "range")
    /\ \E ok \in BOOLEAN :
         IF ok
         THEN /\ grids' = grids \cup {infestation_range}
              /\ pc' = "info"
              /\ error' = error
         ELSE /\ Raise("CalledModuleError")
              /\ grids' = grids
    /\ UNCHANGED <<natural_distance, ewres, nsres, radicand, nprocs_ok, max_distance,
                   matrix, TMPFILE, TMP, file_exists, file_text>>

\* max_distance = gs.raster_info(infestation_range)["max"]; gs.message(...)
\* What the engine makes of sqrt of a negative number is its own: a null cell
\* (a grid of nulls has no maximum, and raster_info gives None) or a NaN.
raster_info ==
    /\ pc = "info"
    /\ log' = Append(log, "info")
    /\ \E ok \in BOOLEAN :
         IF ok
         THEN /\ IF radicand = "negative"
                 THEN max_distance' \in {None, NaN}
                 ELSE \E v \in 0..MaxRadius : max_distance' = Float(v)
              /\ pc' = "kernel"
              /\ error' = error
         ELSE /\ Raise("CalledModuleError")
              /\ max_distance' = max_distance
    /\ UNCHANGED <<natural_distance, ewres, nsres, radicand, nprocs_ok,
                   matrix, TMPFILE, TMP, file_exists, file_text, grids>>

\* matrix = distance_matrix(max_distance, natural_distance)
build_kernel ==
    /\ pc = "kernel"
    /\ log' = Append(log, "kernel")
    /\ \E ok \in BOOLEAN :
         IF ~ok
         THEN /\ Raise("CalledModuleError")       \* gs.region() fails
              /\ matrix' = matrix
         ELSE IF max_distance = None
         THEN /\ Raise("TypeError")               \* None / float
              /\ matrix' = matrix
         ELSE IF max_distance = NaN
         THEN /\ Raise("ValueError")              \* ceil(nan)
              /\ matrix' = matrix
         ELSE /\ matrix' = distance_matrix(max_distance.val, natural_distance,
                                           ewres, nsres)
              /\ pc' = "filter"
              /\ error' = error
    /\ UNCHANGED <<natural_distance, ewres, nsres, radicand, nprocs_ok, max_distance,
                   TMPFILE, TMP, file_exists, file_text, grids>>

\* path = gs.tempfile(); TMPFILE = path; with open(path, "w") as f: f.write(...)
write_filter_file ==
    /\ pc = "filter"
    /\ log' = Append(log, "filter")
    /\ \E outcome \in {"ok", "tempfile fails", "write fails"} :
         CASE outcome = "tempfile fails" ->
                /\ Raise("CalledModuleError")
                /\ UNCHANGED <<TMPFILE, file_exists, file_text>>
           [] outcome = "write fails" ->
                /\ TMPFILE' = "path"
                /\ file_exists' = TRUE
                /\ file_text' = <<>>
                /\ Raise("OSError")
           [] outcome = "ok" ->
                /\ TMPFILE' = "path"
                /\ file_exists' = TRUE
                /\ file_text' = write_filter(matrix)
                /\ pc' = "diff"
                /\ error' = error
    /\ UNCHANGED <<natural_distance, ewres, nsres, radicand, nprocs_ok, max_distance,
                   matrix, TMP, grids>>

\* TMP.append(rmfilter_in); TMP.append(rmfilter_out);
\* gs.mapcalc(f"{rmfilter_in} = abs(host - infected)")
\* Whether a failed engine call leaves its transient grid behind is the engine's
\* own: both outcomes are taken.
diff_mapcalc ==
    /\ pc = "diff"
    /\ log' = Append(log, "diff")
    /\ TMP' = Append(Append(TMP, rmfilter_in), rmfilter_out)
    /\ \E ok \in BOOLEAN :
         IF ok
         THEN /\ grids' = grids \cup {rmfilter_in}
              /\ pc' = "mfilter"
              /\ error' = error
         ELSE /\ Raise("CalledModuleError")
              /\ \E left \in BOOLEAN :
                   grids' = IF left THEN grids \cup {rmfilter_in} ELSE grids
    /\ UNCHANGED <<natural_distance, ewres, nsres, radicand, nprocs_ok, max_distance,
                   matrix, TMPFILE, file_exists, file_text>>

\* gs.run_command("r.mfilter", ..., nprocs=int(options["nprocs"]))
\* (variant: a failed r.mfilter does not end main)
r_mfilter_continue ==
    /\ pc = "mfilter"
    /\ log' = Append(log, "mfilter")
    /\ IF ~nprocs_ok
       THEN /\ Raise("ValueError")
            /\ grids' = grids
       ELSE \E ok \in BOOLEAN :
              /\ grids' = IF ok THEN grids \cup {rmfilter_out} ELSE grids
              /\ pc' = "final"
              /\ error' = IF ok THEN error ELSE "CalledModuleError"
    /\ UNCHANGED <<natural_distance, ewres, nsres, radicand, nprocs_ok, max_distance,
                   matrix, TMPFILE, TMP, file_exists, file_text>>
r_mfilter ==
    /\ pc = "mfilter"
    /\ log' = Append(log, "mfilter")
    /\ IF ~nprocs_ok
       THEN /\ Raise("ValueError")
            /\ grids' = grids
       ELSE \E ok \in BOOLEAN :
              IF ok
              THEN /\ grids' = grids \cup {rmfilter_out}
                   /\ pc' = "final"
                   /\ error' = error
              ELSE /\ Raise("CalledModuleError")
                   /\ \E left \in BOOLEAN :
                        grids' = IF left THEN grids \cup {rmfilter_out} ELSE grids
    /\ UNCHANGED <<natural_distance, ewres, nsres, radicand, nprocs_ok, max_distance,
                   matrix, TMPFILE, TMP, file_exists, file_text>>

\* gs.mapcalc(f"{infestation_potential} = infected * weather * rmfilter_out")
final_mapcalc ==
    /\ pc = "final"
    /\ log' = Append(log, "final")
    /\ \E ok \in BOOLEAN :
         IF ok
         THEN /\ grids' = grids \cup {infestation_potential}
              /\ pc' = "exit"
              /\ error' = error
         ELSE /\ Raise("CalledModuleError")
              /\ grids' = grids
    /\ UNCHANGED <<natural_distance, ewres, nsres, radicand, nprocs_ok, max_distance,
                   matrix, TMPFILE, TMP, file_exists, file_text>>

\* the atexit handler: g.remove of the names in TMP, try_remove of TMPFILE
\* (variant: only the first name of TMP is removed)
cleanup_first_only ==
    /\ pc = "exit"
    /\ grids' = IF TMP # <<>> THEN grids \ {TMP[1]} ELSE grids
    /\ file_exists' = IF TMPFILE # "None" THEN FALSE ELSE file_exists
    /\ pc' = "exited"
    /\ UNCHANGED <<natural_distance, ewres, nsres, radicand, nprocs_ok, max_distance,
                   matrix, TMPFILE, TMP, file_text, log, error>>
cleanup ==
    /\ pc = "exit"
    /\ grids' = IF TMP # <<>> THEN grids \ Range(TMP) ELSE grids
    /\ file_exists' = IF TMPFILE # "None" THEN FALSE ELSE file_exists
    /\ pc' = "exited"
    /\ UNCHANGED <<natural_distance, ewres, nsres, radicand, nprocs_ok, max_distance,
                   matrix, TMPFILE, TMP, file_text, log, error>>

Next ==
    \/ range_mapcalc
    \/ raster_info
    \/ build_kernel
    \/ write_filter_file
    \/ diff_mapcalc
    \/ r_mfilter
    \/ final_mapcalc
    \/ cleanup

Spec == Init /\ [][Next]_vars

(***************************************************************************)
(* write_filter applied to any square matrix of side 0..MaxN.              *)
(***************************************************************************)
Weights == {Zero, Frac(1, 2)}
Matrices ==
    UNION {[0..(n - 1) -> [0..(n - 1) -> Weights]] : n \in 0..MaxN}

InitFilter ==
    /\ pc = "serialize"
    /\ matrix \in Matrices
    /\ natural_distance = 1
    /\ ewres = 1
    /\ nsres = 1
    /\ radicand = "nonnegative"
    /\ nprocs_ok = TRUE
    /\ max_distance = Unset
    /\ TMPFILE = "None"
    /\ TMP = <<>>
    /\ file_exists = FALSE
    /\ file_text = <<>>
    /\ grids = {}
    /\ log = <<>>
    /\ error = "none"

serialize ==
    /\ pc = "serialize"
    /\ file_text' = write_filter(matrix)
    /\ pc' = "serialized"
    /\ UNCHANGED <<natural_distance, ewres, nsres, radicand, nprocs_ok, max_distance,
                   matrix, TMPFILE, TMP, file_exists, grids, log, error>>

NextFilter == serialize

SpecFilter == InitFilter /\ [][NextFilter]_vars

(***************************************************************************)
(* Properties.                                                             *)
(*                                                                         *)
(* In Spec the kernel has been built exactly when matrix is not empty; its *)
(* inputs are then max_distance.val, natural_distance, ewres and nsres.    *)
(***************************************************************************)
Built == matrix # <<>>
R == max_distance.val
halfwidth == ceil(R, Min(ewres, nsres))
\* (2 * resolution)^2 and (2 * max_radius)^2
Res2Sq == (ewres + nsres) * (ewres + nsres)
R2Sq == 4 * R * R
\* the side of the matrix and the index of its centre, read off the matrix
Side == shape0(matrix)
Mid == (Side - 1) \div 2
IsSquare(m, n) ==
    /\ DOMAIN m = 0..(n - 1)
    /\ \A i \in DOMAIN m : DOMAIN m[i] = 0..(n - 1)

\* C1: the matrix distance_matrix returns is square of side 2*halfwidth+1 with
\* halfwidth = ceil(max_radius / min(ewres, nsres)); a cell in the centre row or
\* centre column is zero; a cell whose distance d = sqrt(di^2 + dj^2) *
\* (ewres+nsres)/2 exceeds max_radius is zero; every other cell is exactly
\* 1 / (d^2 + natural_distance^2).
C1_KernelCells ==
    Built =>
        /\ IsSquare(matrix, 2 * halfwidth + 1)
        /\ \A i, j \in 0..(2 * halfwidth) :
             LET k == (i - halfwidth) * (i - halfwidth)
                          + (j - halfwidth) * (j - halfwidth)
                 w == matrix[i][j]
             IN  /\ w.den > 0
                 /\ IF i = halfwidth \/ j = halfwidth THEN w.num = 0
                    ELSE IF k * Res2Sq > R2Sq THEN w.num = 0
                    ELSE w.num * (k * Res2Sq + 4 * natural_distance * natural_distance)
                             = 4 * w.den

\* A kernel with all three kinds of cell: a positive weight at a distance equal
\* to max_radius, a zero off-axis cell beyond it, and an on-axis cell within it.
C1_Witness ==
    /\ Built
    /\ \E i, j \in DOMAIN matrix :
         /\ i # Mid /\ j # Mid
         /\ ((i - Mid) * (i - Mid) + (j - Mid) * (j - Mid)) * Res2Sq = R2Sq
         /\ matrix[i][j].num > 0
    /\ \E j \in DOMAIN matrix :
         /\ j # Mid
         /\ (j - Mid) * (j - Mid) * Res2Sq <= R2Sq
         /\ matrix[Mid][j].num = 0
    /\ \E i, j \in DOMAIN matrix :
         /\ i # Mid /\ j # Mid
         /\ ((i - Mid) * (i - Mid) + (j - Mid) * (j - Mid)) * Res2Sq > R2Sq
         /\ matrix[i][j].num = 0

C3_BothOutputsOrNeither ==
    pc = "exited" =>
        ((infestation_range \in grids) <=> (infestation_potential \in grids))

\* C4 as stated: whenever max_radius is zero or smaller than the resolution the
\* matrix is 1x1 and its single cell is 0.
C4_Original ==
    (Built /\ (R = 0 \/ 2 * R < ewres + nsres)) =>
        /\ IsSquare(matrix, 1)
        /\ matrix[0][0].num = 0

\* C4 amended: when max_radius is zero the matrix is 1x1 and its cell is 0; when
\* max_radius is positive and smaller than the resolution (ewres+nsres)/2 the
\* matrix has side 2*ceil(max_radius/min(ewres, nsres))+1, at least 3, and every
\* cell is 0.
C4_Degenerate ==
    Built =>
        /\ R = 0 => (IsSquare(matrix, 1) /\ matrix[0][0].num = 0)
        /\ (R > 0 /\ 2 * R < ewres + nsres) =>
             /\ Side = 2 * halfwidth + 1
             /\ IsSquare(matrix, Side)
             /\ Side >= 3
             /\ \A i, j \in DOMAIN matrix : matrix[i][j].num = 0

\* A positive max_radius below the resolution, giving a matrix larger than 1x1.
C4_Witness ==
    /\ Built
    /\ R > 0
    /\ 2 * R < ewres + nsres
    /\ Side >= 3

\* C5: the text write_filter returns splits on newline into N+4 lines: a line
\* starting with TITLE, the line MATRIX N, N row lines each of N weights each
\* followed by one space, the line DIVISOR 1 and the line TYPE P; row r holds
\* the weights of matrix row r in column order.
C5_FilterText ==
    pc = "serialized" =>
        LET n == shape0(matrix)
            lines == split(file_text, <<>>)
        IN  /\ Len(lines) = n + 4
            /\ Len(lines[1]) >= 1
            /\ lines[1][1] = "TITLE"
            /\ lines[2] = <<"MATRIX", " ", ToString(n)>>
            /\ \A r \in 1..n :
                 /\ Len(lines[2 + r]) = 2 * n
                 /\ \A c \in 1..n :
                      /\ lines[2 + r][2 * c - 1] = str(matrix[r - 1][c - 1])
                      /\ lines[2 + r][2 * c - 1] \notin {" ", "\n"}
                      /\ lines[2 + r][2 * c] = " "
            /\ lines[n + 3] = <<"DIVISOR", " ", "1">>
            /\ lines[n + 4] = <<"TYPE", " ", "P">>

\* A serialized 3x3 matrix that differs from its transpose.
C5_Witness ==
    /\ pc = "serialized"
    /\ shape0(matrix) = 3
    /\ matrix[0][1] # matrix[1][0]
    /\ Len(file_text) > 0

\* C6: the matrix has odd side N and is unchanged by rotation through 90, 180
\* and 270 degrees: matrix[i][j] = matrix[j][N-1-i] = matrix[N-1-i][N-1-j]
\* = matrix[N-1-j][i].
C6_RotationSymmetric ==
    Built =>
        /\ Side % 2 = 1
        /\ IsSquare(matrix, Side)
        /\ \A i, j \in DOMAIN matrix :
             /\ FracEq(matrix[i][j], matrix[j][Side - 1 - i])
             /\ FracEq(matrix[i][j], matrix[Side - 1 - i][Side - 1 - j])
             /\ FracEq(matrix[i][j], matrix[Side - 1 - j][i])

\* A kernel on non-square cells with a positive weight off the diagonals.
C6_Witness ==
    /\ Built
    /\ ewres # nsres
    /\ \E i, j \in DOMAIN matrix :
         /\ matrix[i][j].num > 0
         /\ Abs(i - Mid) # Abs(j - Mid)

\* C7: when the radicand is negative where it is largest, the run reports it and
\* does not go on to build a kernel from the undefined radius.
C7_NegativeRadicandReported ==
    radicand = "negative" => "kernel" \notin Range(log)

\* C8: the stages run in the order range, info, kernel, filter, diff, mfilter,
\* final, each at most once and only after the ones before it; after a failure
\* no stage runs.
Order == <<"range", "info", "kernel", "filter", "diff", "mfilter", "final">>
C8_StrictSequence ==
    /\ [](Len(log) <= Len(Order) /\ log = SubSeq(Order, 1, Len(log)))
    /\ [][error # "none" => log' = log]_vars

\* A run that went through all seven stages.
C8_Witness ==
    /\ pc = "exited"
    /\ error = "none"
    /\ log = Order

\* C9: every offset (di, dj) off both axes whose distance
\* sqrt(di^2 + dj^2) * (ewres+nsres)/2 is at most max_radius lies inside the
\* matrix: |di| and |dj| are at most its halfwidth.
Offsets == (-(MaxRadius + 1))..(MaxRadius + 1)
C9_NoTruncation ==
    Built =>
        \A di, dj \in Offsets :
            (di # 0 /\ dj # 0 /\ (di * di + dj * dj) * Res2Sq <= R2Sq) =>
                /\ Abs(di) <= Mid
                /\ Abs(dj) <= Mid
                /\ Mid + di \in DOMAIN matrix
                /\ Mid + dj \in DOMAIN matrix[Mid + di]

\* Non-square cells and a cell within the radius two or more columns from the
\* centre.
C9_Witness ==
    /\ Built
    /\ ewres # nsres
    /\ \E di, dj \in Offsets :
         /\ di # 0 /\ Abs(dj) >= 2
         /\ (di * di + dj * dj) * Res2Sq <= R2Sq

\* C10: when max_radius < sqrt(2) * resolution every cell of the matrix is
\* zero, whatever its size; when max_radius >= sqrt(2) * resolution the four
\* diagonal neighbours of the centre hold 1 / (2 * resolution^2 +
\* natural_distance^2), which is positive.
C10_DiagonalThreshold ==
    Built =>
        IF 2 * R * R < Res2Sq
        THEN \A i, j \in DOMAIN matrix : matrix[i][j].num = 0
        ELSE /\ Mid >= 1
             /\ \A a, b \in {-1, 1} :
                  LET w == matrix[Mid + a][Mid + b]
                  IN  /\ w.num > 0
                      /\ w.den > 0
                      /\ w.num * (2 * Res2Sq + 4 * natural_distance * natural_distance)
                             = 4 * w.den

\* An all-zero matrix of side 5 or more.
C10_Witness ==
    /\ Built
    /\ 2 * R * R < Res2Sq
    /\ Side >= 5

====
